---- MODULE Spec2Model ----
(***************************************************************************)
(* Model of binance_spot_downloader.py: month_range, parse_month_zip,      *)
(* concat_and_save and the per-instrument / per-month loop of main.        *)
(*                                                                         *)
(* Five specifications share the variables:                                *)
(*   SpecMonths  month_range applied to bounded (start, end) arguments     *)
(*   SpecParse   parse_month_zip applied to archives with malformed lines  *)
(*   SpecDedup   parse_month_zip applied to files with repeated timestamps *)
(*   SpecUnit    parse_month_zip applied to batches of mixed magnitude     *)
(*   Spec        main: month_range, the fetch/decode loop, concat_and_save *)
(***************************************************************************)
EXTENDS Integers, Sequences, FiniteSets, TLC

VARIABLES
    args,     \* argparse namespace and bases: [start, end, bases, dry]
    pc,       \* position of main: "start", "loop", "done", "crashed"
    months,   \* main's local `months` (result of month_range)
    bi,       \* index into bases of the running `for base in bases`
    mi,       \* index into months of the running `for mm in months`
    frames,   \* main's local `frames` of the running instrument
    saved,    \* the df.to_csv calls so far: <<[base, df]>>
    merged,   \* the frames given to the latest concat_and_save that wrote
    planned,  \* the "Fetch {url}" lines printed so far: <<[symbol, mm]>>
    fetched,  \* the fetch_month_zip calls made so far: <<[symbol, mm]>>
    outcome,  \* how the latest month ended: "none", "dry", "404", "error",
              \* "empty" (decoded to no rows) or "data"
    warned,   \* the "[WARN] No data to save" lines so far: <<base>>
    decoded,  \* <<base, timestamp>> of every row of every non-empty frame
              \* parse_month_zip has returned
    zin,      \* the archive handed to parse_month_zip (SpecParse, SpecUnit)
    zout      \* what parse_month_zip made of zin

vars == <<args, pc, months, bi, mi, frames, saved, merged, planned, fetched, outcome,
          warned, decoded, zin, zout>>

(***************************************************************************)
(* Bounds of the model.                                                    *)
(***************************************************************************)
MaxLongSpan == 14   \* SpecMonths: end is at most this many months after start
MaxSpan == 2        \* Spec: months in the requested range
MaxBases == 2       \* Spec: instruments in the list
MaxFileLines == 2   \* Spec: lines of a fetched month file
MaxLines == 3       \* SpecParse: lines of the month file
MaxBatch == 3       \* SpecUnit: lines of the month file
MaxRows == 3        \* SpecDedup: lines of the month file

(***************************************************************************)
(* Helpers on sequences.                                                   *)
(***************************************************************************)
Range(s) == {s[k] : k \in 1..Len(s)}

SeqsUpTo(S, n) == UNION {[1..k -> S] : k \in 0..n}

RECURSIVE Concat(_)
Concat(ss) == IF ss = <<>> THEN <<>> ELSE Head(ss) \o Concat(Tail(ss))

(***************************************************************************)
(* month_range.  A month argument "YYYY-MM" is the sequence of its         *)
(* characters: four year digits, "-", two month digits.                    *)
(***************************************************************************)
MINYEAR == 1
MAXYEAR == 9999

MonthStr(y, m) ==
    <<y \div 1000, (y \div 100) % 10, (y \div 10) % 10, y % 10, "-",
      m \div 10, m % 10>>

\* datetime.strptime(s, "%Y-%m"): year and month of the text, day 1.
Strptime(s) ==
    [year  |-> s[1] * 1000 + s[2] * 100 + s[3] * 10 + s[4],
     month |-> s[6] * 10 + s[7]]

\* cur.strftime("%Y-%m")
Strftime(dt) == MonthStr(dt.year, dt.month)

\* datetime comparison cur <= e (both on day 1)
DtLE(a, b) == a.year < b.year \/ (a.year = b.year /\ a.month <= b.month)

\* datetime(y, m, 1) raises ValueError outside MINYEAR..MAXYEAR
DatetimeRaises(y, m) == y < MINYEAR \/ y > MAXYEAR \/ m < 1 \/ m > 12

\* lines 38-39: the year and month of the next `cur`
NextYear(cur) == cur.year + (cur.month \div 12)
NextMonth(cur) == IF cur.month = 12 THEN 1 ELSE cur.month + 1

\* the while loop of month_range, from `cur` with `acc` collected so far
RECURSIVE MonthLoop(_, _, _)
MonthLoop(cur, e, acc) ==
    IF ~DtLE(cur, e)
    THEN [raised |-> FALSE, months |-> acc]
    ELSE LET y == NextYear(cur)
             m == NextMonth(cur)
         IN IF DatetimeRaises(y, m)
            THEN [raised |-> TRUE, months |-> <<>>]
            ELSE MonthLoop([year |-> y, month |-> m], e,
                           Append(acc, Strftime(cur)))

month_range(start_yyyy_mm, end_yyyy_mm) ==
    LET s == Strptime(start_yyyy_mm)
        e == Strptime(end_yyyy_mm)
    IN MonthLoop([year |-> s.year, month |-> s.month], e, <<>>)

(***************************************************************************)
(* Month files.  A line of the CSV is [nf, ot, ohlcv]: nf is the number of *)
(* fields on the line, ot the text of its first field (open_time), ohlcv   *)
(* the texts of fields 2..6; fields 7..12 are never read by the program    *)
(* and hold "0".  A numeric text is the number it spells; Garbage is a     *)
(* text that spells no number.  open_time texts are counted in units of    *)
(* 10^9 (RawScale), so that 1700 is the text "1700000000000"; instants are *)
(* whole seconds since the epoch.                                          *)
(***************************************************************************)
Garbage == -2
NaN == -1
NaT == -1
NumColumns == 12

\* the text of column k of a parsed line; a line shorter than the table is
\* padded with missing values by read_csv
Cell(line, k) ==
    IF k > line.nf THEN NaN
    ELSE IF k = 1 THEN line.ot
    ELSE IF k <= 6 THEN line.ohlcv[k - 1]
    ELSE 0

\* pd.read_csv(f, header=None, dtype=str, on_bad_lines="skip"): the first
\* line fixes the number of columns; a later line with more fields is
\* skipped, one with fewer is padded; an empty file raises EmptyDataError
read_csv(file) ==
    IF file = <<>>
    THEN [raised |-> TRUE, width |-> 0, rows |-> <<>>]
    ELSE [raised |-> FALSE,
          width  |-> file[1].nf,
          rows   |-> SelectSeq(file, LAMBDA l : l.nf <= file[1].nf)]

\* pd.to_numeric(x, errors="coerce")
to_numeric(x) == IF x = Garbage \/ x = NaN THEN NaN ELSE x

RECURSIVE InsertSorted(_, _)
InsertSorted(x, s) ==
    IF s = <<>> THEN <<x>>
    ELSE IF x <= Head(s) THEN <<x>> \o s
    ELSE <<Head(s)>> \o InsertSorted(x, Tail(s))

RECURSIVE SortInts(_)
SortInts(s) == IF s = <<>> THEN <<>> ELSE InsertSorted(Head(s), SortInts(Tail(s)))

\* ts.dropna().median(): the two middle values of the sorted values (the same
\* value twice for an odd count); their mean is the median.  NaN when empty.
Median(ts) ==
    LET v == SortInts(SelectSeq(ts, LAMBDA x : x # NaN))
        n == Len(v)
    IN IF n = 0 THEN [nan |-> TRUE, lo |-> 0, hi |-> 0]
       ELSE IF n % 2 = 1
       THEN [nan |-> FALSE, lo |-> v[(n + 1) \div 2], hi |-> v[(n + 1) \div 2]]
       ELSE [nan |-> FALSE, lo |-> v[n \div 2], hi |-> v[n \div 2 + 1]]

\* med > t, for med = (lo + hi) / 2; every comparison with NaN is false
MedGT(med, t) == ~med.nan /\ (med.hi - t) > (t - med.lo)

\* 1e17, 1e14, 1e11 in units of RawScale
NsThreshold == 100000000
UsThreshold == 100000
MsThreshold == 100

\* lines 109-116
MedGE(med, t) == ~med.nan /\ (med.hi - t) >= (t - med.lo)
DetectUnitInclusive(med) ==
    IF MedGE(med, NsThreshold) THEN "ns"
    ELSE IF MedGE(med, UsThreshold) THEN "us"
    ELSE IF MedGE(med, MsThreshold) THEN "ms"
    ELSE "s"
DetectUnit(med) ==
    IF MedGT(med, NsThreshold) THEN "ns"
    ELSE IF MedGT(med, UsThreshold) THEN "us"
    ELSE IF MedGT(med, MsThreshold) THEN "ms"
    ELSE "s"

\* seconds spanned by RawScale raw units of `unit`
UnitSeconds(unit) ==
    CASE unit = "ns" -> 1
      [] unit = "us" -> 1000
      [] unit = "ms" -> 1000000
      [] unit = "s"  -> 1000000000

\* whether raw value x of `unit` is within pandas' Timestamp.max
\* (9223372036 s after the epoch)
InBounds(x, unit) ==
    CASE unit = "ns" -> TRUE
      [] unit = "us" -> x <= 9223372
      [] unit = "ms" -> x <= 9223
      [] unit = "s"  -> x <= 9

\* pd.to_datetime(x, unit=unit, utc=True, errors="coerce")
to_datetime(x, unit) ==
    IF x = NaN \/ ~InBounds(x, unit) THEN NaT ELSE x * UnitSeconds(unit)

\* df.dropna(subset=["timestamp"])
dropna(df) == SelectSeq(df, LAMBDA r : r.timestamp # NaT)

Perms(s) ==
    {[k \in 1..Len(s) |-> s[f[k]]] :
        f \in {g \in [1..Len(s) -> 1..Len(s)] : Range(g) = 1..Len(s)}}

RECURSIVE Arrangements(_, _)
Arrangements(df, times) ==
    IF times = <<>> THEN {<<>>}
    ELSE {p \o rest :
            p \in Perms(SelectSeq(df, LAMBDA r : r.timestamp = Head(times))),
            rest \in Arrangements(df, Tail(times))}

\* df.sort_values("timestamp"): kind defaults to "quicksort", which is not
\* stable, so rows of equal timestamp come out in any order
sort_values(df) ==
    Arrangements(df, SortInts(
        LET ts == {r.timestamp : r \in Range(df)}
        IN CHOOSE s \in [1..Cardinality(ts) -> ts] : Range(s) = ts))

\* df[~df["timestamp"].duplicated(keep="first")]
KeepAllRows(df) == df
drop_duplicated(df) ==
    LET keep(k) == \A j \in 1..(k - 1) : df[j].timestamp # df[k].timestamp
        RECURSIVE From(_)
        From(k) == IF k > Len(df) THEN <<>>
                   ELSE (IF keep(k) THEN <<df[k]>> ELSE <<>>) \o From(k + 1)
    IN From(1)

\* lines 104-129: the typed rows of a parsed table, in file order
TypedRows(rows, unit) ==
    [k \in 1..Len(rows) |->
        [timestamp |-> to_datetime(to_numeric(Cell(rows[k], 1)), unit),
         open   |-> to_numeric(Cell(rows[k], 2)),
         high   |-> to_numeric(Cell(rows[k], 3)),
         low    |-> to_numeric(Cell(rows[k], 4)),
         close  |-> to_numeric(Cell(rows[k], 5)),
         volume |-> to_numeric(Cell(rows[k], 6))]]

ParseRaised == [raised |-> TRUE, unit |-> "none", df |-> <<>>]

\* parse_month_zip(zbytes): the set of results it can produce.  An archive is
\* [valid, files]: whether the bytes are a zip container, and its members.
parse_month_zip(z) ==
    IF ~z.valid THEN {ParseRaised}
    ELSE IF z.files = <<>>
    THEN {[raised |-> FALSE, unit |-> "none", df |-> <<>>]}
    ELSE LET csv == read_csv(z.files[1])
         IN IF csv.raised \/ csv.width # NumColumns THEN {ParseRaised}
            ELSE LET ts == [k \in 1..Len(csv.rows) |->
                               to_numeric(Cell(csv.rows[k], 1))]
                     unit == DetectUnit(Median(ts))
                 IN {[raised |-> FALSE, unit |-> unit,
                      df |-> drop_duplicated(s)] :
                        s \in sort_values(dropna(TypedRows(csv.rows, unit)))}

\* concat_and_save(frames, out_csv) with frames non-empty: the frames it can
\* write (lines 141-145)
concat_and_save(fs) ==
    {drop_duplicated(s) : s \in sort_values(dropna(Concat(fs)))}

(***************************************************************************)
(* fetch_month_zip.  A response of requests.get is [error, status,         *)
(* content]: whether the call raised, the status code, the body.  Bytes    *)
(* are [empty, valid, files].                                              *)
(***************************************************************************)
EmptyBytes == [empty |-> TRUE, valid |-> FALSE, files |-> <<>>]

fetch_month_zip(resp) ==
    IF resp.error THEN [raised |-> TRUE, z |-> EmptyBytes]
    ELSE IF resp.status = 404 THEN [raised |-> FALSE, z |-> EmptyBytes]
    ELSE IF resp.status >= 400 THEN [raised |-> TRUE, z |-> EmptyBytes]
    ELSE [raised |-> FALSE, z |-> resp.content]

(***************************************************************************)
(* Input domains.                                                          *)
(***************************************************************************)
GoodOhlcv(o) == <<o, 1, 1, 1, 1>>

\* all five texts numeric, or exactly one of them garbage
OhlcvTexts ==
    {GoodOhlcv(1), GoodOhlcv(2)} \cup
    {[k \in 1..5 |-> IF k = b THEN Garbage ELSE 1] : b \in 1..5}

ParseLines ==
    [nf : {3, 12, 13}, ot : {1700, 1701, Garbage}, ohlcv : OhlcvTexts]

\* open_time values around 1.7e9, 1.7e12, 1.7e15, 1.7e18 and at the thresholds
RawTimes ==
    {2, MsThreshold, MsThreshold + 1, 1700, UsThreshold, UsThreshold + 1,
     1700000, NsThreshold, NsThreshold + 1, 1700000000}

UnitLines == [nf : {12}, ot : RawTimes \cup {Garbage}, ohlcv : {GoodOhlcv(1)}]

DedupLines ==
    [nf : {12}, ot : {1700, 1701}, ohlcv : {GoodOhlcv(1), GoodOhlcv(2)}]

FetchLines == [nf : {12}, ot : {1700, 1701, Garbage}, ohlcv : {GoodOhlcv(1)}]

ZipOf(file) == [empty |-> FALSE, valid |-> TRUE, files |-> <<file>>]
NotAZip == [empty |-> FALSE, valid |-> FALSE, files |-> <<>>]
ZipNoMembers == [empty |-> FALSE, valid |-> TRUE, files |-> <<>>]

ZipsOver(lines, n) ==
    {NotAZip, ZipNoMembers} \cup {ZipOf(f) : f \in SeqsUpTo(lines, n)}

Responses ==
    {[error |-> TRUE, status |-> 0, content |-> EmptyBytes],
     [error |-> FALSE, status |-> 404, content |-> EmptyBytes],
     [error |-> FALSE, status |-> 500, content |-> EmptyBytes],
     [error |-> FALSE, status |-> 200, content |-> EmptyBytes]}
    \cup {[error |-> FALSE, status |-> 200, content |-> z] :
            z \in ZipsOver(FetchLines, MaxFileLines)}

\* what fetch_month_zip can return or raise, and what parse_month_zip can
\* make of the bytes it returns
FetchResults == {fetch_month_zip(resp) : resp \in Responses}
DecodeResults ==
    UNION {parse_month_zip(f.z) :
             f \in {g \in FetchResults : ~g.raised /\ ~g.z.empty}}

BaseNames == <<"BTC", "ETH", "SOL", "BNB", "XRP">>

\* instrument lists: the first k bases, k <= MaxBases
BaseLists == {SubSeq(BaseNames, 1, k) : k \in 0..MaxBases}

Ord(s) == Strptime(s).year * 12 + Strptime(s).month

ArgMonths ==
    {MonthStr(2024, 12), MonthStr(2025, 1), MonthStr(2025, 2),
     MonthStr(MAXYEAR, 12)}

\* months of SpecMonths: a year of ordinary months, and the last months
\* datetime can hold
LongMonths ==
    {MonthStr(2024, m) : m \in 1..12} \cup {MonthStr(2025, m) : m \in 1..12}
    \cup {MonthStr(MAXYEAR - 1, m) : m \in 1..12}
    \cup {MonthStr(MAXYEAR, m) : m \in 1..12}

NoResult == [raised |-> FALSE, unit |-> "none", df |-> <<>>]

(***************************************************************************)
(* main.                                                                   *)
(***************************************************************************)
InitLocals ==
    /\ pc = "start"
    /\ months = <<>>
    /\ bi = 1
    /\ mi = 1
    /\ frames = <<>>
    /\ saved = <<>>
    /\ merged = <<>>
    /\ planned = <<>>
    /\ fetched = <<>>
    /\ outcome = "none"
    /\ warned = <<>>
    /\ decoded = {}
    /\ zin = NotAZip
    /\ zout = NoResult

Init ==
    /\ args \in {a \in [start : ArgMonths, end : ArgMonths, bases : BaseLists,
                        dry : BOOLEAN] :
                    Ord(a.end) - Ord(a.start) + 1 <= MaxSpan}
    /\ InitLocals

\* line 170: months = month_range(args.start, args.end); a ValueError of
\* month_range is not caught
CallMonthRange ==
    /\ pc = "start"
    /\ LET r == month_range(args.start, args.end)
       IN /\ months' = r.months
          /\ pc' = IF r.raised THEN "crashed" ELSE "loop"
    /\ UNCHANGED <<args, bi, mi, frames, saved, merged, planned, fetched, outcome,
                   warned, decoded, zin, zout>>

InMonth == pc = "loop" /\ bi <= Len(args.bases) /\ mi <= Len(months)
AfterMonths == pc = "loop" /\ bi <= Len(args.bases) /\ mi > Len(months)

Base == args.bases[bi]
\* line 174: symbol = f"{base}USDT"
Symbol == <<Base, "USDT">>

\* line 179, and the step of `for mm in months`
PrintFetch ==
    /\ planned' = Append(planned, [symbol |-> Symbol, mm |-> months[mi]])
    /\ mi' = mi + 1

\* line 183: the call of fetch_month_zip
CallFetch == fetched' = Append(fetched, [symbol |-> Symbol, mm |-> months[mi]])

\* lines 191-192: `except Exception` prints the error; the loop goes on
OnExceptionPropagate == "crashed"
OnException == "loop"

\* lines 180-181
MonthDry ==
    /\ InMonth /\ args.dry
    /\ PrintFetch
    /\ outcome' = "dry"
    /\ UNCHANGED <<args, pc, months, bi, frames, saved, merged, fetched, warned,
                   decoded, zin, zout>>

\* lines 183-186: fetch_month_zip returns b""
MonthAbsent ==
    /\ InMonth /\ ~args.dry
    /\ \E f \in FetchResults : ~f.raised /\ f.z.empty
    /\ PrintFetch
    /\ CallFetch
    /\ outcome' = "404"
    /\ UNCHANGED <<args, pc, months, bi, frames, saved, merged, warned, decoded, zin,
                   zout>>

\* lines 183, 191-192: fetch_month_zip raises
MonthFetchError ==
    /\ InMonth /\ ~args.dry
    /\ \E f \in FetchResults : f.raised
    /\ PrintFetch
    /\ CallFetch
    /\ outcome' = "error"
    /\ pc' = OnException
    /\ UNCHANGED <<args, months, bi, frames, saved, merged, warned, decoded, zin,
                   zout>>

\* lines 187, 191-192: parse_month_zip raises
MonthDecodeError ==
    /\ InMonth /\ ~args.dry
    /\ \E r \in DecodeResults : r.raised
    /\ PrintFetch
    /\ CallFetch
    /\ outcome' = "error"
    /\ pc' = OnException
    /\ UNCHANGED <<args, months, bi, frames, saved, merged, warned, decoded, zin,
                   zout>>

\* line 188: df is not None and not df.empty
NonEmptyUnchecked(df) == TRUE
NonEmpty(df) == df # <<>>

\* lines 188-189: `frames` after a month decoded to df
Accumulate(fs, df) == IF NonEmpty(df) THEN Append(fs, df) ELSE fs

\* lines 187-190: parse_month_zip returns df
MonthDecoded ==
    /\ InMonth /\ ~args.dry
    /\ \E r \in DecodeResults :
          /\ ~r.raised
          /\ outcome' = IF r.df = <<>> THEN "empty" ELSE "data"
          /\ frames' = Accumulate(frames, r.df)
          /\ decoded' = decoded \cup
                          {<<Base, r.df[k].timestamp>> : k \in 1..Len(r.df)}
    /\ PrintFetch
    /\ CallFetch
    /\ UNCHANGED <<args, pc, months, bi, saved, merged, warned, zin, zout>>

\* line 175: frames = [] at the start of each instrument
KeepFrames(old) == old
NewFrames(old) == <<>>

\* line 173: the step of `for base in bases`
NextBase ==
    /\ bi' = bi + 1
    /\ mi' = 1
    /\ frames' = NewFrames(frames)

\* line 193 with --dry: nothing is saved
EndInstrumentDry ==
    /\ AfterMonths /\ args.dry
    /\ NextBase
    /\ UNCHANGED <<args, pc, months, saved, merged, planned, fetched, outcome, warned,
                   decoded, zin, zout>>

\* line 138: `if not frames`
NoFrames(fs) == fs = <<>>

\* lines 138-140: concat_and_save with no frames
EndInstrumentNoData ==
    /\ AfterMonths /\ ~args.dry
    /\ NoFrames(frames)
    /\ warned' = Append(warned, Base)
    /\ NextBase
    /\ UNCHANGED <<args, pc, months, saved, merged, planned, fetched, outcome,
                   decoded, zin, zout>>

\* lines 141-148: concat_and_save writes the merged frame
EndInstrumentSave ==
    /\ AfterMonths /\ ~args.dry
    /\ ~NoFrames(frames)
    /\ \E df \in concat_and_save(frames) :
          saved' = Append(saved, [base |-> Base, df |-> df])
    /\ merged' = frames
    /\ NextBase
    /\ UNCHANGED <<args, pc, months, planned, fetched, outcome, warned,
                   decoded, zin, zout>>

\* the loop over bases is exhausted: main returns
Finish ==
    /\ pc = "loop" /\ bi > Len(args.bases)
    /\ pc' = "done"
    /\ UNCHANGED <<args, months, bi, mi, frames, saved, merged, planned, fetched,
                   outcome, warned, decoded, zin, zout>>

Next ==
    \/ CallMonthRange
    \/ MonthDry
    \/ MonthAbsent
    \/ MonthFetchError
    \/ MonthDecodeError
    \/ MonthDecoded
    \/ EndInstrumentDry
    \/ EndInstrumentNoData
    \/ EndInstrumentSave
    \/ Finish

Spec == Init /\ [][Next]_vars

(***************************************************************************)
(* month_range on its own.                                                 *)
(***************************************************************************)
InitMonths ==
    /\ args \in {a \in [start : LongMonths, end : LongMonths, bases : {<<>>},
                        dry : {FALSE}] :
                    /\ Ord(a.end) - Ord(a.start) <= MaxLongSpan
                    /\ Ord(a.start) - Ord(a.end) <= MaxLongSpan}
    /\ InitLocals

NextMonths == CallMonthRange

SpecMonths == InitMonths /\ [][NextMonths]_vars

(***************************************************************************)
(* parse_month_zip on its own.                                             *)
(***************************************************************************)
ParseStep ==
    /\ pc = "start"
    /\ \E r \in parse_month_zip(zin) : zout' = r
    /\ pc' = "done"
    /\ UNCHANGED <<args, months, bi, mi, frames, saved, merged, planned, fetched,
                   outcome, warned, decoded, zin>>

NoArgs == [start |-> MonthStr(2024, 1), end |-> MonthStr(2024, 1),
           bases |-> <<>>, dry |-> FALSE]

InitFunction ==
    /\ pc = "start"
    /\ args = NoArgs
    /\ months = <<>>
    /\ bi = 1
    /\ mi = 1
    /\ frames = <<>>
    /\ saved = <<>>
    /\ merged = <<>>
    /\ planned = <<>>
    /\ fetched = <<>>
    /\ outcome = "none"
    /\ warned = <<>>
    /\ decoded = {}
    /\ zout = NoResult

InitParse == InitFunction /\ zin \in ZipsOver(ParseLines, MaxLines)

InitUnit ==
    InitFunction /\ zin \in {ZipOf(f) : f \in SeqsUpTo(UnitLines, MaxBatch)}

InitDedup ==
    InitFunction /\ zin \in {ZipOf(f) : f \in SeqsUpTo(DedupLines, MaxRows)}

NextParse == ParseStep

SpecParse == InitParse /\ [][NextParse]_vars
SpecUnit == InitUnit /\ [][NextParse]_vars
SpecDedup == InitDedup /\ [][NextParse]_vars

(***************************************************************************)
(* Properties.                                                             *)
(***************************************************************************)
Timestamps(df) == {df[k].timestamp : k \in 1..Len(df)}
Count(df, t) == Cardinality({k \in 1..Len(df) : df[k].timestamp = t})
IsPrefix(s, t) == Len(s) <= Len(t) /\ \A k \in 1..Len(s) : s[k] = t[k]
DecodedOf(b) == {p[2] : p \in {q \in decoded : q[1] = b}}

\* the k-th month of the requested range, counted from args.start
MonthAt(k) ==
    LET o == Ord(args.start) + k - 2
    IN MonthStr(o \div 12, (o % 12) + 1)
RangeLen ==
    IF Ord(args.end) < Ord(args.start) THEN 0
    ELSE Ord(args.end) - Ord(args.start) + 1

\* every (instrument, month) pair, in instrument order then month order
AllPairs ==
    Concat([b \in 1..Len(args.bases) |->
              [k \in 1..RangeLen |->
                 [symbol |-> <<args.bases[b], "USDT">>, mm |-> MonthAt(k)]]])

C2_SavedStrictlyIncreasing ==
    /\ \A k \in 1..Len(saved) :
          \A i \in 1..(Len(saved[k].df) - 1) :
             saved[k].df[i].timestamp < saved[k].df[i + 1].timestamp
    /\ saved # <<>> =>
          \A f \in Range(merged) : \A t \in Timestamps(f) :
             Count(saved[Len(saved)].df, t) = 1

\* C2 witness: two month frames sharing a timestamp were merged into a series
\* of two rows.
C2_Witness ==
    /\ saved # <<>>
    /\ Len(merged) = 2
    /\ Timestamps(merged[1]) \cap Timestamps(merged[2]) # {}
    /\ Len(saved[Len(saved)].df) = 2

\* C3: no absent or failed month aborts the run: main crashes only before any
\* month was attempted; the pairs attempted so far are a prefix of all the
\* (instrument, month) pairs in order, each fetched exactly once unless --dry;
\* a finished run attempted them all; a month that ended absent or failed
\* left the accumulator as it was.
C3_State ==
    /\ pc = "crashed" => planned = <<>> /\ month_range(args.start, args.end).raised
    /\ IsPrefix(planned, AllPairs)
    /\ fetched = IF args.dry THEN <<>> ELSE planned
    /\ pc = "done" => planned = AllPairs

C3_Step ==
    (planned' # planned /\ outcome' \in {"404", "error"}) => frames' = frames

C3_EveryPairAttemptedOnce == []C3_State /\ [][C3_Step]_vars

\* C3 witness: a finished run of two instruments and two months whose first
\* instrument got nothing, whose second instrument was saved, and whose last
\* month ended absent or failed.
C3_Witness ==
    /\ pc = "done"
    /\ Len(args.bases) = 2 /\ Len(months) = 2
    /\ planned = AllPairs /\ fetched = AllPairs
    /\ Len(warned) = 1 /\ Len(saved) = 1
    /\ outcome \in {"404", "error"}

\* C7: with start > end the run ends in a configuration error: month_range
\* does not return, and nothing is processed or reported per instrument.
C7_StartAfterEndIsError ==
    Ord(args.start) > Ord(args.end) =>
        /\ pc \in {"start", "crashed"}
        /\ planned = <<>> /\ warned = <<>> /\ saved = <<>>

\* C10: the timestamps of the series written for an instrument are exactly
\* the timestamps of the rows parse_month_zip returned for that instrument.
C10_SavedIsUnionOfDecoded ==
    \A k \in 1..Len(saved) :
        Timestamps(saved[k].df) = DecodedOf(saved[k].base)

\* C10 witness: two instruments were saved with different sets of timestamps,
\* the first from two month frames.
C10_Witness ==
    /\ pc = "done"
    /\ Len(saved) = 2
    /\ Timestamps(saved[1].df) # Timestamps(saved[2].df)
    /\ Len(saved[1].df) = 2 /\ Len(saved[2].df) = 1

(***************************************************************************)
(* Properties of parse_month_zip (SpecParse, SpecUnit).                    *)
(***************************************************************************)
Parsed == pc = "done" /\ zin.valid /\ zin.files # <<>>
File == zin.files[1]

\* the rows that reach the sort-and-dedup step of parse_month_zip, in file order
SortInput == dropna(TypedRows(read_csv(File).rows, zout.unit))

\* the structurally valid lines of the file
ValidLines == SelectSeq(File, LAMBDA l : l.nf = NumColumns)

\* C4: no row of the output of parse_month_zip has a null timestamp, open,
\* high, low, close or volume.
C4_NoNullInOutput ==
    pc = "done" =>
        \A k \in 1..Len(zout.df) :
            /\ zout.df[k].timestamp # NaT
            /\ zout.df[k].open # NaN /\ zout.df[k].high # NaN
            /\ zout.df[k].low # NaN /\ zout.df[k].close # NaN
            /\ zout.df[k].volume # NaN

\* C5: sort-and-dedup yields exactly one row per distinct timestamp of its
\* input, and that row is the first of the input rows with that timestamp.
C5_DedupKeepsFirstInInputOrder ==
    (Parsed /\ ~zout.raised) =>
        \A t \in Timestamps(SortInput) :
            /\ Count(zout.df, t) = 1
            /\ \A k \in 1..Len(zout.df) :
                  zout.df[k].timestamp = t =>
                     zout.df[k] =
                        SortInput[CHOOSE i \in 1..Len(SortInput) :
                                    /\ SortInput[i].timestamp = t
                                    /\ \A j \in 1..(i - 1) :
                                          SortInput[j].timestamp # t]

\* C9: a file with at least one structurally valid line parses without
\* raising, whatever malformed lines it holds and wherever they are, and the
\* output is what the valid lines alone give.
C9_MalformedLinesSkipped ==
    (Parsed /\ ValidLines # <<>>) =>
        /\ ~zout.raised
        /\ zout.df \in {r.df : r \in parse_month_zip(ZipOf(ValidLines))}

\* the lines of the batch whose open_time parsed as a number
Numeric == {k \in 1..Len(File) : File[k].ot # Garbage}
Below(k) == Cardinality({j \in Numeric : File[j].ot < File[k].ot})
Above(k) == Cardinality({j \in Numeric : File[j].ot > File[k].ot})
IsLowerMiddle(k) ==
    /\ Below(k) <= (Cardinality(Numeric) - 1) \div 2
    /\ Above(k) <= Cardinality(Numeric) \div 2
IsUpperMiddle(k) ==
    /\ Below(k) <= Cardinality(Numeric) \div 2
    /\ Above(k) <= (Cardinality(Numeric) - 1) \div 2

\* the median of the numeric open_time values (the mean of the two middle
\* values) exceeds t
MedianExceeds(t) ==
    \E i, j \in Numeric :
        /\ IsLowerMiddle(i) /\ IsUpperMiddle(j)
        /\ (File[j].ot - t) > (t - File[i].ot)

AllNumericAre(x) == Numeric # {} /\ \A k \in Numeric : File[k].ot = x

\* C8: the unit is decided by the batch median alone, with the thresholds
\* 1e17, 1e14, 1e11 themselves in the lower unit; batches of magnitude 1e9,
\* 1e12, 1e15, 1e18 are seconds, milliseconds, microseconds, nanoseconds; and
\* the one unit converts every row of the batch.
C8_UnitFromMedian ==
    (Parsed /\ ~zout.raised) =>
        /\ zout.unit =
              IF MedianExceeds(NsThreshold) THEN "ns"
              ELSE IF MedianExceeds(UsThreshold) THEN "us"
              ELSE IF MedianExceeds(MsThreshold) THEN "ms"
              ELSE "s"
        /\ AllNumericAre(2) => zout.unit = "s"
        /\ AllNumericAre(1700) => zout.unit = "ms"
        /\ AllNumericAre(1700000) => zout.unit = "us"
        /\ AllNumericAre(1700000000) => zout.unit = "ns"
        /\ AllNumericAre(MsThreshold) => zout.unit = "s"
        /\ AllNumericAre(UsThreshold) => zout.unit = "ms"
        /\ AllNumericAre(NsThreshold) => zout.unit = "us"
        /\ Timestamps(zout.df) =
              {File[k].ot * UnitSeconds(zout.unit) :
                 k \in {j \in Numeric : InBounds(File[j].ot, zout.unit)}}

\* C8 witness: a batch of three lines, one with an unparseable open_time and
\* two around 1e11 whose mean is above it, was read as milliseconds.
C8_Witness ==
    /\ Parsed /\ ~zout.raised
    /\ Len(File) = 3
    /\ \E k \in 1..3 : File[k].ot = Garbage
    /\ \E k \in 1..3 : File[k].ot = MsThreshold
    /\ zout.unit = "ms"
    /\ Len(zout.df) = 2

(***************************************************************************)
(* Properties of month_range (SpecMonths).                                 *)
(***************************************************************************)
\* C6: for start <= end month_range returns the months from start to end:
\* Ord(end) - Ord(start) + 1 of them, the first start, the last end, each the
\* calendar month after the one before it (January of the next year after
\* December).
C6_MonthRangeContract ==
    (pc # "start" /\ Ord(args.start) <= Ord(args.end)) =>
        /\ pc = "loop"
        /\ Len(months) = Ord(args.end) - Ord(args.start) + 1
        /\ months[1] = args.start
        /\ months[Len(months)] = args.end
        /\ \A k \in 1..Len(months) : Strptime(months[k]).month \in 1..12
        /\ \A k \in 1..(Len(months) - 1) :
              /\ Ord(months[k + 1]) = Ord(months[k]) + 1
              /\ Strptime(months[k]).month = 12 =>
                    /\ Strptime(months[k + 1]).month = 1
                    /\ Strptime(months[k + 1]).year =
                          Strptime(months[k]).year + 1

\* the same contract for every range that ends before December of MAXYEAR
MonthRangeContractBelowMax ==
    Ord(args.end) < MAXYEAR * 12 + 12 => C6_MonthRangeContract

====
